---- MODULE Spec2Model ----
(***************************************************************************)
(* Model of the OOTD inference service: the Runpod queue handler           *)
(* (handler.py), the FastAPI surface (main.py, models.py), the generation  *)
(* routine (infer.py) and the background remover (bg_removal/remover.py).  *)
(*                                                                         *)
(* JSON / Python values are tagged records, so that values of different    *)
(* Python types can be compared.  A Python str is a sequence of text       *)
(* fragments: the empty sequence is the empty string.                      *)
(***************************************************************************)
EXTENDS Integers, Sequences, FiniteSets, TLC

VARIABLES
    th,                   \* per-thread call chain of the job being served
    _PIPELINE,            \* infer.py module global: 0 is None, else the handle
    placed,               \* pipeline handles whose .to(device) has completed
    _BG_REMOVAL_SESSION,  \* remover.py module global: 0 is None, else the handle
    built,                \* history: how many handles of each kind were constructed
    fr                    \* a stand-alone application of _bool_flags_for_images

vars == <<th, _PIPELINE, placed, _BG_REMOVAL_SESSION, built, fr>>

-----------------------------------------------------------------------------
(* Bounds of the model *)

MaxImages == 5      \* longest image list a job carries
MaxSelLen == 2      \* longest selector list a job carries
MaxFlagImages == 3  \* longest image list given to the stand-alone flag resolver
MaxFlagSel == 3     \* longest selector list given to the stand-alone flag resolver

(* Program constants *)

MinItems == 1       \* InferenceRequest.image_paths min_items
MaxItems == 4       \* InferenceRequest.image_paths max_items

-----------------------------------------------------------------------------
(* Python values *)

Absent == [tag |-> "absent"]            \* a key that is not in the dict
None == [tag |-> "none"]
JBool(b) == [tag |-> "bool", b |-> b]
JInt(n) == [tag |-> "int", n |-> n]
JStr(s) == [tag |-> "str", s |-> s]
JList(items) == [tag |-> "list", items |-> items]

\* Python truthiness, as used by `not x` and bool(x)
Truthy(v) ==
    CASE v.tag = "none" -> FALSE
      [] v.tag = "bool" -> v.b
      [] v.tag = "int" -> v.n # 0
      [] v.tag = "str" -> v.s # <<>>
      [] v.tag = "list" -> v.items # <<>>

Digit == <<"0", "1", "2", "3", "4", "5", "6", "7", "8", "9">>

RECURSIVE Decimal(_)
\* the decimal digits of a natural number
Decimal(n) ==
    IF n < 10 THEN <<Digit[n + 1]>> ELSE Decimal(n \div 10) \o <<Digit[(n % 10) + 1]>>

\* str(x) / f"{x}" of None, a bool, a natural number or a str, as text fragments
PyStr(v) ==
    CASE v.tag = "none" -> <<"None">>
      [] v.tag = "bool" -> IF v.b THEN <<"True">> ELSE <<"False">>
      [] v.tag = "int" -> Decimal(v.n)
      [] v.tag = "str" -> v.s

\* dict.get(key, default)
Get(d, key, default) == IF d[key] = Absent THEN default ELSE d[key]

\* int(x) / float(x) succeed on numbers and booleans; the strings of the input
\* domain are not numerals, and None is a TypeError
Convertible(v) == v.tag \in {"int", "bool"}

SeqsUpTo(S, n) == UNION {[1..k -> S] : k \in 0..n}

\* the i-th image reference of a job (0-based)
Ref(i) == JStr(<<"ref", Digit[i + 1]>>)
Refs(n) == JList([k \in 1..n |-> Ref(k - 1)])

-----------------------------------------------------------------------------
(* handler.py: pure helpers *)

\* a resolver that converts the selector list as it is, neither padded nor cut
FlagsOfListOnly(image_paths, remove_background_param) ==
    LET n == Len(image_paths) IN
    IF remove_background_param = None
    THEN [i \in 1..n |-> FALSE]
    ELSE IF remove_background_param.tag = "bool"
    THEN [i \in 1..n |-> remove_background_param.b]
    ELSE IF remove_background_param.tag = "list"
    THEN [i \in 1..Len(remove_background_param.items) |->
            Truthy(remove_background_param.items[i])]
    ELSE [i \in 1..n |-> FALSE]

\* _bool_flags_for_images: one boolean per image
_bool_flags_for_images(image_paths, remove_background_param) ==
    LET n == Len(image_paths) IN
    IF remove_background_param = None
    THEN [i \in 1..n |-> FALSE]
    ELSE IF remove_background_param.tag = "bool"
    THEN [i \in 1..n |-> remove_background_param.b]
    ELSE IF remove_background_param.tag = "list"
    THEN [i \in 1..n |->
            IF i <= Len(remove_background_param.items)
            THEN Truthy(remove_background_param.items[i])
            ELSE FALSE]
    ELSE [i \in 1..n |-> FALSE]

\* the dict a queue job's "input" key holds: every key the handler reads
EmptyDict ==
    [task_type |-> Absent, prompt |-> Absent, image_paths |-> Absent,
     height |-> Absent, width |-> Absent, guidance_scale |-> Absent,
     num_inference_steps |-> Absent, remove_background |-> Absent,
     image_path |-> Absent, output_path |-> Absent]

\* job_id = str(event.get("id", "unknown"))
JobIdOf(event) == PyStr(Get(event, "id", JStr(<<"unknown">>)))

\* job_input = event.get("input") or {}
JobInputOf(event) ==
    IF event.input = Absent \/ event.input = None THEN EmptyDict ELSE event.input

\* a lookup whose default is the other task
TaskTypeDefaultRemove(job_input) == Get(job_input, "task_type", JStr(<<"remove_background">>))

\* task_type = job_input.get("task_type", "infer")
TaskTypeOf(job_input) == Get(job_input, "task_type", JStr(<<"infer">>))

\* the branch handler() takes for a task_type
RouteOf(task_type) ==
    IF task_type = JStr(<<"infer">>) THEN "infer"
    ELSE IF task_type = JStr(<<"remove_background">>) THEN "remove_background"
    ELSE "unknown"

\* a validation that forgets the prompt
OnlyImagesChecked(prompt, image_paths) == ~Truthy(image_paths)

\* `if not prompt or not image_paths` (a missing key reads as None)
InferInputMissing(prompt, image_paths) == ~Truthy(prompt) \/ ~Truthy(image_paths)

\* `if not image_path`
RemoveInputMissing(image_path) == ~Truthy(image_path)

\* the four int()/float() conversions of _handle_infer, over the given or default value
ParamsConvertible(job_input) ==
    /\ Convertible(Get(job_input, "height", JInt(1024)))
    /\ Convertible(Get(job_input, "width", JInt(1024)))
    /\ Convertible(Get(job_input, "guidance_scale", JInt(1)))
    /\ Convertible(Get(job_input, "num_inference_steps", JInt(10)))

\* tmp_dir = os.path.join("/tmp", "bg_removed", job_id)
TmpDir(job_id) == <<"/tmp/bg_removed/">> \o job_id

\* output_path = os.path.join(tmp_dir, f"img_{idx}.png"), idx 0-based
ImgOutputPath(job_id, idx) == JStr(TmpDir(job_id) \o <<"/img_", Digit[idx + 1], ".png">>)

\* output_path = os.path.join(tmp_dir, "removed.png")
RemovedOutputPath(job_id) == JStr(TmpDir(job_id) \o <<"/removed.png">>)

\* the result shapes of the queue handler
SuccessResult(image_base64) ==
    [success |-> TRUE, image_base64 |-> JStr(image_base64), error_message |-> None]

\* a failure result that drops an empty message
FailureMessageOrNone(message) ==
    [success |-> FALSE, image_base64 |-> None,
     error_message |-> IF message = <<>> THEN None ELSE JStr(message)]

FailureResult(message) ==
    [success |-> FALSE, image_base64 |-> None, error_message |-> JStr(message)]

\* the result shapes of POST /remove_background
RemovalSuccess(output_path) ==
    [success |-> TRUE, output_path |-> output_path, error_message |-> None]

RemovalFailure(message) ==
    [success |-> FALSE, output_path |-> None, error_message |-> JStr(message)]

\* error text of the three validation failures of the queue handler
MsgInferRequired == <<"Both 'prompt' and 'image_paths' are required for infer task.">>
MsgPathRequired == <<"'image_path' is required for remove_background task.">>
MsgUnknownTask(task_type) == <<"Unknown task_type: ">> \o PyStr(task_type)

-----------------------------------------------------------------------------
(* remover.py: output path derivation when no output_path is given *)

\* base name of the reference, ".png" forced as the extension
DerivedBaseName(path) ==
    LET s == path.s IN
    IF \A k \in 1..Len(s) : s[k] \notin {".png", ".jpg"}
    THEN s \o <<".png">>
    ELSE IF s[Len(s)] # ".png"
    THEN SubSeq(s, 1, Len(s) - 1) \o <<".png">>
    ELSE s

OutputPathFor(path, output_path) ==
    IF output_path = None
    THEN JStr(<<"outputs/bg_removed/">> \o DerivedBaseName(path))
    ELSE output_path

-----------------------------------------------------------------------------
(* models.py, bg_removal/models.py: request validation done before the endpoint runs *)

ValidInferenceRequest(body) ==
    /\ body.prompt.tag = "str"
    /\ body.image_paths.tag = "list"
    /\ Len(body.image_paths.items) >= MinItems
    /\ Len(body.image_paths.items) <= MaxItems
    /\ \A k \in {"height", "width", "guidance_scale", "num_inference_steps"} :
          body[k] = Absent \/ Convertible(body[k])

ValidRemovalRequest(body) ==
    /\ body.image_path.tag = "str"
    /\ body.output_path.tag \in {"absent", "none", "str"}

-----------------------------------------------------------------------------
(* Jobs *)

Dict(task_type, prompt, image_paths, params, remove_background, image_path, output_path) ==
    [task_type |-> task_type, prompt |-> prompt, image_paths |-> image_paths,
     height |-> params[1], width |-> params[2], guidance_scale |-> params[3],
     num_inference_steps |-> params[4], remove_background |-> remove_background,
     image_path |-> image_path, output_path |-> output_path]

NoParams == <<Absent, Absent, Absent, Absent>>
ParamChoices ==
    {NoParams,
     <<JInt(512), JInt(768), JInt(2), JInt(4)>>,
     <<Absent, Absent, Absent, JStr(<<"abc">>)>>}

Prompts == {Absent, JStr(<<>>), JStr(<<"a prompt">>)}
ImageLists == {Absent} \cup {Refs(n) : n \in 0..MaxImages}
Selectors ==
    {Absent, None, JStr(<<"yes">>), JInt(1)}
        \cup {JBool(b) : b \in BOOLEAN}
        \cup {JList(l) : l \in SeqsUpTo({JBool(TRUE), JBool(FALSE)}, MaxSelLen)}
ImagePaths == {Absent, JStr(<<>>), JStr(<<"person", ".jpg">>)}

Event(input) == [id |-> JStr(<<"job-1">>), input |-> input]

QueueEvents ==
    {Event(Dict(tt, p, ips, par, sel, Absent, Absent)) :
        tt \in {Absent, JStr(<<"infer">>)}, p \in Prompts, ips \in ImageLists,
        par \in ParamChoices, sel \in Selectors}
    \cup {Event(Dict(JStr(<<"remove_background">>), p, Absent, NoParams, Absent, ip, Absent)) :
        p \in {Absent, JStr(<<"a prompt">>)}, ip \in ImagePaths}
    \cup {Event(Dict(tt, JStr(<<"a prompt">>), Refs(1), NoParams, Absent, ip, Absent)) :
        tt \in {None, JStr(<<"segment">>), JStr(<<"Infer">>), JInt(1)},
        ip \in {Absent, JStr(<<"person", ".jpg">>)}}
    \cup {[id |-> Absent, input |-> i] : i \in {Absent, None}}

InferBodies ==
    {Dict(Absent, p, ips, par, Absent, Absent, Absent) :
        p \in Prompts, ips \in ImageLists, par \in ParamChoices}

RemovalBodies ==
    {Dict(Absent, Absent, Absent, NoParams, Absent, ip, op) :
        ip \in ImagePaths, op \in {Absent, None, JStr(<<"out", ".png">>)}}

\* what one process may be asked to do, sequentially
Jobs ==
    {[surface |-> "queue", event |-> e] : e \in QueueEvents}
    \cup {[surface |-> "http_infer", event |-> b] : b \in InferBodies}
    \cup {[surface |-> "http_remove_bg", event |-> b] : b \in RemovalBodies}

\* the jobs of the two-thread specification
ConcJobs ==
    {[surface |-> "queue", event |-> Event(Dict(Absent, p, Refs(1), NoParams, JBool(b), Absent, Absent))] :
        p \in {Absent, JStr(<<"a prompt">>)}, b \in BOOLEAN}
    \cup {[surface |-> "queue", event |-> Event(Dict(tt, Absent, Absent, NoParams, Absent, ip, Absent))] :
        tt \in {JStr(<<"remove_background">>), JStr(<<"segment">>)},
        ip \in {Absent, JStr(<<"person", ".jpg">>)}}
    \cup {[surface |-> "http_infer", event |-> Dict(Absent, JStr(<<"a prompt">>), Refs(n), NoParams, Absent, Absent, Absent)] :
        n \in 0..1}
    \cup {[surface |-> "http_remove_bg", event |-> Dict(Absent, Absent, Absent, NoParams, Absent, ip, Absent)] :
        ip \in {Absent, JStr(<<"person", ".jpg">>)}}

-----------------------------------------------------------------------------
(* Exceptions and per-thread state *)

NoExc == [tag |-> "noexc"]
Exc(message) == [tag |-> "exc", message |-> message]
NoResult == [tag |-> "noresult"]

\* str(exc) of what a failing external call raises: some text, or the empty string
Messages(what) == {<<what>>, <<>>}

Idle ==
    [pc |-> "idle", surface |-> "none", event |-> Absent,
     job_id |-> <<>>, job_input |-> EmptyDict, route |-> "none",
     \* _handle_infer locals
     flags |-> <<>>, idx |-> 0, processed_paths |-> <<>>,
     \* the call in progress: who called, and whether the call site is inside a try
     caller |-> "none", inTry |-> FALSE,
     \* remove_background arguments and local
     image_path_or_url |-> None, output_path |-> None, session |-> 0,
     \* run_inference argument and locals
     image_paths |-> <<>>, pipe |-> 0, images |-> <<>>,
     \* how the job ended
     result |-> NoResult, raised |-> NoExc, exc |-> NoExc, rejected |-> FALSE,
     \* history of the job: external calls made
     loaderCalls |-> 0, removerCalls |-> <<>>, generatorCalls |-> <<>>,
     initCalls |-> 0, pipesUsed |-> {}, sessionsUsed |-> {},
     \* history: the handles this job found already built
     reused |-> {}]

Set(t, r) == th' = [th EXCEPT ![t] = r]

Globals == <<_PIPELINE, placed, _BG_REMOVAL_SESSION, built>>

\* the failure result of the caller whose try block the exception reaches
CaughtResult(caller, message) ==
    IF caller = "http_remove_bg" THEN RemovalFailure(message) ELSE FailureResult(message)

\* an exception raised in thread state r: caught by the caller's try, or propagated
Raise(r, message) ==
    IF r.inTry
    THEN [r EXCEPT !.pc = "done", !.exc = Exc(message),
                   !.result = CaughtResult(r.caller, message)]
    ELSE [r EXCEPT !.pc = "done", !.exc = Exc(message), !.raised = Exc(message)]

\* does Image.open / requests.get of this reference have a chance to succeed
Loadable(path) == path.tag = "str" /\ path.s # <<>>

-----------------------------------------------------------------------------
(* Lazy initializers: the tests that decide whether a handle is built *)

\* infer.py: `if _PIPELINE is None`
PipelineUnset(pipeline) == pipeline = 0

\* a test that never finds the session built
SessionAlwaysUnset(session) == TRUE

\* remover.py: `if _BG_REMOVAL_SESSION is None`
SessionUnset(session) == session = 0

\* a loop that removes the background of every image
RemoverForAll(flags, idx) == TRUE

\* handler.py: `if flags[idx]`, idx 0-based
UsesRemover(flags, idx) == flags[idx + 1]

-----------------------------------------------------------------------------
(* A job arrives *)

EntryOf(surface) ==
    CASE surface = "queue" -> "handler"
      [] surface = "http_infer" -> "http_infer"
      [] surface = "http_remove_bg" -> "http_remove_bg"

\* the serving framework hands the thread its next job
Start(t, jobs) ==
    /\ th[t].pc = "idle"
    /\ \E j \in jobs :
          Set(t, [Idle EXCEPT !.pc = EntryOf(j.surface), !.surface = j.surface,
                              !.event = j.event])
    /\ UNCHANGED <<Globals, fr>>

\* the job's result (or its exception) has gone back to the serving framework
Finish(t) ==
    /\ th[t].pc = "done"
    /\ Set(t, Idle)
    /\ UNCHANGED <<Globals, fr>>

-----------------------------------------------------------------------------
(* handler.py *)

\* handler(): read the job, dispatch on task_type
Handler(t) ==
    LET r == th[t]
        job_input == JobInputOf(r.event)
        task_type == TaskTypeOf(job_input)
        r1 == [r EXCEPT !.job_id = JobIdOf(r.event), !.job_input = job_input,
                        !.route = RouteOf(task_type)]
    IN
    /\ r.pc = "handler"
    /\ IF r1.route = "infer"
       THEN Set(t, [r1 EXCEPT !.pc = "handle_infer"])
       ELSE IF r1.route = "remove_background"
       THEN Set(t, [r1 EXCEPT !.pc = "handle_remove_background"])
       ELSE Set(t, [r1 EXCEPT !.pc = "done",
                              !.result = FailureResult(MsgUnknownTask(task_type))])
    /\ UNCHANGED <<Globals, fr>>

\* _handle_infer up to the loop: validation, parameter conversion, flags, tmp_dir
HandleInfer(t) ==
    LET r == th[t]
        prompt == Get(r.job_input, "prompt", None)
        image_paths == Get(r.job_input, "image_paths", None)
    IN
    /\ r.pc = "handle_infer"
    /\ IF InferInputMissing(prompt, image_paths)
       THEN Set(t, [r EXCEPT !.pc = "done", !.result = FailureResult(MsgInferRequired)])
       ELSE IF ~ParamsConvertible(r.job_input)
       THEN Set(t, Raise(r, <<"invalid literal for int()">>))
       ELSE Set(t, [r EXCEPT !.pc = "infer_loop",
                             !.flags = _bool_flags_for_images(
                                          image_paths.items,
                                          Get(r.job_input, "remove_background", None)),
                             !.idx = 0, !.processed_paths = <<>>])
    /\ UNCHANGED <<Globals, fr>>

\* one iteration of `for idx, path in enumerate(image_paths)`
InferLoop(t) ==
    LET r == th[t]
        image_paths == r.job_input.image_paths.items
        path == image_paths[r.idx + 1]
    IN
    /\ r.pc = "infer_loop"
    /\ r.idx < Len(image_paths)
    /\ IF UsesRemover(r.flags, r.idx)
       THEN Set(t, [r EXCEPT !.pc = "remove_background", !.caller = "handle_infer",
                             !.inTry = FALSE, !.image_path_or_url = path,
                             !.output_path = ImgOutputPath(r.job_id, r.idx)])
       ELSE Set(t, [r EXCEPT !.processed_paths = Append(@, path), !.idx = @ + 1])
    /\ UNCHANGED <<Globals, fr>>

\* after the loop: run_inference(...) inside the try
InferCall(t) ==
    LET r == th[t] IN
    /\ r.pc = "infer_loop"
    /\ r.idx = Len(r.job_input.image_paths.items)
    /\ Set(t, [r EXCEPT !.pc = "run_inference", !.caller = "handle_infer",
                        !.inTry = TRUE, !.image_paths = r.processed_paths])
    /\ UNCHANGED <<Globals, fr>>

\* _handle_remove_background up to the call of remove_background inside the try
HandleRemoveBackground(t) ==
    LET r == th[t]
        image_path == Get(r.job_input, "image_path", None)
    IN
    /\ r.pc = "handle_remove_background"
    /\ IF RemoveInputMissing(image_path)
       THEN Set(t, [r EXCEPT !.pc = "done", !.result = FailureResult(MsgPathRequired)])
       ELSE Set(t, [r EXCEPT !.pc = "remove_background",
                             !.caller = "handle_remove_background", !.inTry = TRUE,
                             !.image_path_or_url = image_path,
                             !.output_path = RemovedOutputPath(r.job_id)])
    /\ UNCHANGED <<Globals, fr>>

\* _encode_image_file_to_base64(processed_path), then the success result
Encode(t) ==
    LET r == th[t]
        r1 == [r EXCEPT !.loaderCalls = @ + 1]
    IN
    /\ r.pc = "encode"
    /\ \/ Set(t, [r1 EXCEPT !.pc = "done", !.result = SuccessResult(<<"png">>)])
       \/ \E m \in Messages("cannot identify image file") : Set(t, Raise(r1, m))
    /\ UNCHANGED <<Globals, fr>>

-----------------------------------------------------------------------------
(* main.py *)

\* POST /infer: the body is validated, then run_inference runs inside the try
HttpInfer(t) ==
    LET r == th[t] IN
    /\ r.pc = "http_infer"
    /\ IF ValidInferenceRequest(r.event)
       THEN Set(t, [r EXCEPT !.pc = "run_inference", !.caller = "http_infer",
                             !.inTry = TRUE, !.image_paths = r.event.image_paths.items])
       ELSE Set(t, [r EXCEPT !.pc = "done", !.rejected = TRUE])
    /\ UNCHANGED <<Globals, fr>>

\* POST /remove_background: the body is validated, then remove_background runs inside the try
HttpRemoveBg(t) ==
    LET r == th[t] IN
    /\ r.pc = "http_remove_bg"
    /\ IF ValidRemovalRequest(r.event)
       THEN Set(t, [r EXCEPT !.pc = "remove_background", !.caller = "http_remove_bg",
                             !.inTry = TRUE, !.image_path_or_url = r.event.image_path,
                             !.output_path = Get(r.event, "output_path", None)])
       ELSE Set(t, [r EXCEPT !.pc = "done", !.rejected = TRUE])
    /\ UNCHANGED <<Globals, fr>>

-----------------------------------------------------------------------------
(* bg_removal/remover.py *)

\* remove_background: load the image (URL fetch or Image.open, then convert)
RemoveLoad(t) ==
    LET r == th[t]
        r1 == [r EXCEPT !.loaderCalls = @ + 1]
    IN
    /\ r.pc = "remove_background"
    /\ \/ /\ Loadable(r.image_path_or_url)
          /\ Set(t, [r1 EXCEPT !.pc = "get_session"])
       \/ \E m \in Messages("cannot load image") : Set(t, Raise(r1, m))
    /\ UNCHANGED <<Globals, fr>>

\* _get_session: the test of the global
GetSession(t) ==
    LET r == th[t]
        r1 == [r EXCEPT !.initCalls = @ + 1]
    IN
    /\ r.pc = "get_session"
    /\ IF SessionUnset(_BG_REMOVAL_SESSION)
       THEN Set(t, [r1 EXCEPT !.pc = "new_session"])
       ELSE Set(t, [r1 EXCEPT !.pc = "return_session", !.reused = @ \cup {"session"}])
    /\ UNCHANGED <<Globals, fr>>

\* _get_session: _BG_REMOVAL_SESSION = new_session()
NewSession(t) ==
    LET r == th[t] IN
    /\ r.pc = "new_session"
    /\ \/ /\ _BG_REMOVAL_SESSION' = built.sessions + 1
          /\ built' = [built EXCEPT !.sessions = @ + 1]
          /\ Set(t, [r EXCEPT !.pc = "return_session"])
          /\ UNCHANGED <<_PIPELINE, placed>>
       \/ /\ \E m \in Messages("cannot load segmentation model") : Set(t, Raise(r, m))
          /\ UNCHANGED Globals
    /\ UNCHANGED fr

\* _get_session: return _BG_REMOVAL_SESSION
ReturnSession(t) ==
    LET r == th[t] IN
    /\ r.pc = "return_session"
    /\ Set(t, [r EXCEPT !.pc = "remove", !.session = _BG_REMOVAL_SESSION])
    /\ UNCHANGED <<Globals, fr>>

\* what the caller of remove_background does with the returned path
AfterRemove(r, returned) ==
    CASE r.caller = "handle_infer" ->
            [r EXCEPT !.pc = "infer_loop", !.processed_paths = Append(@, returned),
                      !.idx = @ + 1]
      [] r.caller = "handle_remove_background" ->
            [r EXCEPT !.pc = "encode", !.processed_paths = <<returned>>]
      [] r.caller = "http_remove_bg" ->
            [r EXCEPT !.pc = "done", !.result = RemovalSuccess(returned)]

\* remove_background: remove(input_image, session=session), save, return output_path
Remove(t) ==
    LET r == th[t]
        r1 == [r EXCEPT !.removerCalls = Append(@, r.image_path_or_url),
                        !.sessionsUsed = @ \cup {r.session}]
    IN
    /\ r.pc = "remove"
    /\ \/ Set(t, AfterRemove(r1, OutputPathFor(r.image_path_or_url, r.output_path)))
       \/ \E m \in Messages("background removal failed") : Set(t, Raise(r1, m))
    /\ UNCHANGED <<Globals, fr>>

-----------------------------------------------------------------------------
(* infer.py *)

\* _load_pipeline: the test of the global
LoadPipeline(t) ==
    LET r == th[t]
        r1 == [r EXCEPT !.initCalls = @ + 1]
    IN
    /\ r.pc = "run_inference"
    /\ IF PipelineUnset(_PIPELINE)
       THEN Set(t, [r1 EXCEPT !.pc = "from_pretrained"])
       ELSE Set(t, [r1 EXCEPT !.pc = "return_pipeline", !.reused = @ \cup {"pipeline"}])
    /\ UNCHANGED <<Globals, fr>>

\* _load_pipeline: _PIPELINE = Flux2KleinPipeline.from_pretrained(...)
FromPretrained(t) ==
    LET r == th[t] IN
    /\ r.pc = "from_pretrained"
    /\ \/ /\ _PIPELINE' = built.pipelines + 1
          /\ built' = [built EXCEPT !.pipelines = @ + 1]
          /\ Set(t, [r EXCEPT !.pc = "to_device"])
          /\ UNCHANGED <<placed, _BG_REMOVAL_SESSION>>
       \/ /\ \E m \in Messages("cannot load pipeline") : Set(t, Raise(r, m))
          /\ UNCHANGED Globals
    /\ UNCHANGED fr

\* _load_pipeline: _PIPELINE.to(device)
ToDevice(t) ==
    LET r == th[t] IN
    /\ r.pc = "to_device"
    /\ \/ /\ placed' = placed \cup {_PIPELINE}
          /\ Set(t, [r EXCEPT !.pc = "return_pipeline"])
       \/ /\ \E m \in Messages("out of memory") : Set(t, Raise(r, m))
          /\ UNCHANGED placed
    /\ UNCHANGED <<_PIPELINE, _BG_REMOVAL_SESSION, built, fr>>

\* _load_pipeline: return _PIPELINE
ReturnPipeline(t) ==
    LET r == th[t] IN
    /\ r.pc = "return_pipeline"
    /\ Set(t, [r EXCEPT !.pc = "load_images", !.pipe = _PIPELINE, !.images = <<>>])
    /\ UNCHANGED <<Globals, fr>>

\* run_inference: one iteration of `for path in image_paths: _load_image(path)`
LoadImage(t) ==
    LET r == th[t]
        r1 == [r EXCEPT !.loaderCalls = @ + 1]
        path == r.image_paths[Len(r.images) + 1]
    IN
    /\ r.pc = "load_images"
    /\ Len(r.images) < Len(r.image_paths)
    /\ \/ /\ Loadable(path)
          /\ Set(t, [r1 EXCEPT !.images = Append(@, path)])
       \/ \E m \in Messages("cannot load image") : Set(t, Raise(r1, m))
    /\ UNCHANGED <<Globals, fr>>

\* run_inference: pipe(prompt, image=images, ...), encode; the caller builds the result
Generate(t) ==
    LET r == th[t]
        r1 == [r EXCEPT !.generatorCalls = Append(@, r.images),
                        !.pipesUsed = @ \cup {r.pipe}]
    IN
    /\ r.pc = "load_images"
    /\ Len(r.images) = Len(r.image_paths)
    /\ \/ Set(t, [r1 EXCEPT !.pc = "done", !.result = SuccessResult(<<"png">>)])
       \/ \E m \in Messages("generation failed") : Set(t, Raise(r1, m))
    /\ UNCHANGED <<Globals, fr>>

-----------------------------------------------------------------------------
(* The stand-alone flag resolver *)

FlagItems == {JBool(TRUE), JBool(FALSE), JInt(0), JInt(1)}
FlagSelectors ==
    {None, JBool(TRUE), JBool(FALSE), JInt(0), JInt(1), JStr(<<>>), JStr(<<"yes">>)}
        \cup {JList(l) : l \in SeqsUpTo(FlagItems, MaxFlagSel)}

FrIdle == [pc |-> "idle", image_paths |-> <<>>, param |-> None, flags |-> <<>>]

ResolveFlags ==
    /\ fr.pc = "call"
    /\ fr' = [fr EXCEPT !.pc = "returned",
                        !.flags = _bool_flags_for_images(fr.image_paths, fr.param)]
    /\ UNCHANGED <<th, Globals>>

-----------------------------------------------------------------------------
(* Specifications *)

InitGlobals ==
    /\ _PIPELINE = 0
    /\ placed = {}
    /\ _BG_REMOVAL_SESSION = 0
    /\ built = [pipelines |-> 0, sessions |-> 0]

Step(t) ==
    \/ Finish(t)
    \/ Handler(t)
    \/ HandleInfer(t)
    \/ InferLoop(t)
    \/ InferCall(t)
    \/ HandleRemoveBackground(t)
    \/ Encode(t)
    \/ HttpInfer(t)
    \/ HttpRemoveBg(t)
    \/ RemoveLoad(t)
    \/ GetSession(t)
    \/ NewSession(t)
    \/ ReturnSession(t)
    \/ Remove(t)
    \/ LoadPipeline(t)
    \/ FromPretrained(t)
    \/ ToDevice(t)
    \/ ReturnPipeline(t)
    \/ LoadImage(t)
    \/ Generate(t)

\* one process serving its jobs one after another
Init ==
    /\ th = [t \in {1} |-> Idle]
    /\ InitGlobals
    /\ fr = FrIdle

Next == \E t \in {1} : Start(t, Jobs) \/ Step(t)

Spec == Init /\ [][Next]_vars

\* one process whose serving framework runs two jobs at a time
InitConc ==
    /\ th = [t \in {1, 2} |-> Idle]
    /\ InitGlobals
    /\ fr = FrIdle

NextConc == \E t \in {1, 2} : Start(t, ConcJobs) \/ Step(t)

SpecConc == InitConc /\ [][NextConc]_vars

\* the flag resolver applied to every input of the bounded domain
InitFlags ==
    /\ th = [t \in {1} |-> Idle]
    /\ InitGlobals
    /\ fr \in {[pc |-> "call", image_paths |-> Refs(n).items, param |-> p, flags |-> <<>>] :
                  n \in 0..MaxFlagImages, p \in FlagSelectors}

NextFlags == ResolveFlags

SpecFlags == InitFlags /\ [][NextFlags]_vars

-----------------------------------------------------------------------------
(* Properties *)

T == DOMAIN th

\* the key of a queue job's input, None when the key or the input is missing
InputKey(r, key) == Get(JobInputOf(r.event), key, None)

IsGenerateJob(r) ==
    /\ r.surface = "queue"
    /\ JobInputOf(r.event).task_type \in {Absent, JStr(<<"infer">>)}

IsRemoveJob(r) ==
    /\ r.surface = "queue"
    /\ JobInputOf(r.event).task_type = JStr(<<"remove_background">>)

EmptyOrMissing(v) == v \in {None, JStr(<<>>), JList(<<>>)}

NoWorkDone(r) ==
    /\ r.loaderCalls = 0
    /\ r.removerCalls = <<>>
    /\ r.generatorCalls = <<>>
    /\ r.initCalls = 0

\* a returned result that reports a failure with some text
FailedWithText(r) ==
    /\ r.result # NoResult
    /\ r.result.success = FALSE
    /\ r.result.error_message.tag = "str"
    /\ r.result.error_message.s # <<>>

Contains(s, part) ==
    \E i \in 1..(Len(s) + 1) : \E j \in 0..Len(s) : SubSeq(s, i, j) = part

\* C1: the flag resolver returns exactly one boolean per image: all false for an
\* absent/null selector, the boolean itself at every position for a single boolean,
\* position i of a list when the list has one (a boolean item as it is, any other
\* item by its truth value) and false beyond the list, all false for any other shape;
\* and the call returns for every input.
C1_FlagsPerImage ==
    /\ fr.pc = "call" => ENABLED ResolveFlags
    /\ fr.pc = "returned" =>
        LET n == Len(fr.image_paths)
            p == fr.param
            f == fr.flags
        IN
        /\ DOMAIN f = 1..n
        /\ \A i \in 1..n : f[i] \in BOOLEAN
        /\ p = None => \A i \in 1..n : f[i] = FALSE
        /\ p.tag = "bool" => \A i \in 1..n : f[i] = p.b
        /\ p.tag = "list" =>
              \A i \in 1..n :
                 /\ i > Len(p.items) => f[i] = FALSE
                 /\ i <= Len(p.items) /\ p.items[i].tag = "bool" => f[i] = p.items[i].b
                 /\ i <= Len(p.items) /\ p.items[i].tag = "int" =>
                       f[i] = (p.items[i].n # 0)
        /\ p.tag \notin {"none", "bool", "list"} => \A i \in 1..n : f[i] = FALSE

\* selector [true, false] with 3 images resolves to [true, false, false]
C1_Witness ==
    /\ fr.pc = "returned"
    /\ Len(fr.image_paths) = 3
    /\ fr.param = JList(<<JBool(TRUE), JBool(FALSE)>>)
    /\ fr.flags = <<TRUE, FALSE, FALSE>>

\* C2: every failure of a queue job after validation comes back as a result with
\* success = false and the exception's message; nothing propagates to the caller.
C2_FailuresCaught ==
    \A t \in T :
        LET r == th[t] IN
        r.surface = "queue" /\ r.pc = "done" /\ r.exc # NoExc =>
            /\ r.raised = NoExc
            /\ r.result = FailureResult(r.exc.message)

\* a queue job that lacks a required field
InvalidQueueJob(r) ==
    \/ /\ IsGenerateJob(r)
       /\ (EmptyOrMissing(InputKey(r, "prompt")) \/ EmptyOrMissing(InputKey(r, "image_paths")))
    \/ /\ IsRemoveJob(r)
       /\ EmptyOrMissing(InputKey(r, "image_path"))

\* C3: a generate job without prompt or images, and a remove-background job without
\* image_path, returns success = false with a message and does no work at all.
C3_FailFast ==
    \A t \in T :
        LET r == th[t] IN
        InvalidQueueJob(r) =>
            /\ NoWorkDone(r)
            /\ r.raised = NoExc
            /\ r.pc = "done" => FailedWithText(r)

\* a generate job with images and a selector, but no prompt, has been refused
C3_Witness ==
    \E t \in T :
        /\ th[t].pc = "done"
        /\ IsGenerateJob(th[t])
        /\ InputKey(th[t], "prompt") = None
        /\ InputKey(th[t], "image_paths") = Refs(2)
        /\ InputKey(th[t], "remove_background") = JBool(TRUE)
        /\ FailedWithText(th[t])

\* C4: a job without task_type takes the branch a job with task_type "infer" takes;
\* a task_type that is neither "infer" nor "remove_background" gives success = false
\* with a message containing the value, no exception and no work.
C4_Dispatch ==
    \A t \in T :
        LET r == th[t]
            tt == JobInputOf(r.event).task_type
        IN
        r.surface = "queue" /\ r.pc # "handler" =>
            /\ tt = Absent => r.route = "infer" /\ r.route = RouteOf(JStr(<<"infer">>))
            /\ tt \notin {Absent, JStr(<<"infer">>), JStr(<<"remove_background">>)} =>
                  /\ NoWorkDone(r)
                  /\ r.raised = NoExc
                  /\ r.pc = "done"
                  /\ FailedWithText(r)
                  /\ Contains(r.result.error_message.s, PyStr(tt))

\* an unknown task_type with otherwise valid fields has been refused
C4_Witness ==
    \E t \in T :
        /\ th[t].pc = "done"
        /\ th[t].surface = "queue"
        /\ InputKey(th[t], "task_type") = JStr(<<"segment">>)
        /\ InputKey(th[t], "image_path") = JStr(<<"person", ".jpg">>)
        /\ th[t].result = FailureResult(<<"Unknown task_type: ", "segment">>)

\* the payload field of a result: output_path on POST /remove_background
Payload(r) ==
    IF r.surface = "http_remove_bg" THEN r.result.output_path ELSE r.result.image_base64

\* C5: every returned result has the payload set and error_message null when
\* success is true, and the payload null and error_message set when it is false.
C5_PayloadXorError ==
    \A t \in T :
        LET r == th[t] IN
        r.result # NoResult =>
            /\ r.result.success = TRUE =>
                  Payload(r).tag = "str" /\ r.result.error_message = None
            /\ r.result.success = FALSE =>
                  Payload(r) = None /\ r.result.error_message.tag = "str"

\* a failure with an empty exception text has been returned by the queue handler
C5_Witness ==
    \E t \in T :
        /\ th[t].surface = "queue"
        /\ th[t].exc = Exc(<<>>)
        /\ th[t].result # NoResult
        /\ th[t].result.success = FALSE

\* C6: serving jobs one after another, each handle is built at most once, the global
\* holds it from then on, and every invocation uses that handle.
C6_BuiltOnce ==
    /\ built.pipelines \in {0, 1}
    /\ built.sessions \in {0, 1}
    /\ _PIPELINE = built.pipelines
    /\ _BG_REMOVAL_SESSION = built.sessions
    /\ \A t \in T :
          /\ th[t].pipesUsed \subseteq {1}
          /\ th[t].sessionsUsed \subseteq {1}
          /\ th[t].pc = "load_images" => th[t].pipe = 1
          /\ th[t].pc = "remove" => th[t].session = 1

\* a job that found both handles built by earlier jobs has used them
C6_Witness ==
    \E t \in T :
        /\ th[t].reused = {"pipeline", "session"}
        /\ th[t].pipesUsed = {1}
        /\ th[t].sessionsUsed = {1}
        /\ th[t].pc = "done"

\* C7: with two jobs in the lazy initializer at once, the handle is still built
\* exactly once and both jobs use the same instance.
C7_BuiltOnceConcurrently ==
    /\ built.pipelines <= 1
    /\ built.sessions <= 1
    /\ \A t \in T : th[t].pipesUsed \subseteq {1} /\ th[t].sessionsUsed \subseteq {1}

\* C8: whenever no job is running, each handle is unset or fully initialized.
C8_UnsetOrInitialized ==
    (\A t \in T : th[t].pc \in {"idle", "done"}) =>
        _PIPELINE = 0 \/ _PIPELINE \in placed

\* C9: every generator invocation gets between 1 and 4 images.
C9_OneToFourImages ==
    \A t \in T :
        \A k \in DOMAIN th[t].generatorCalls :
            /\ Len(th[t].generatorCalls[k]) >= MinItems
            /\ Len(th[t].generatorCalls[k]) <= MaxItems

RECURSIVE FlaggedUpTo(_, _, _)
\* the references among the first k that carry a true flag, in input order
FlaggedUpTo(image_paths, flags, k) ==
    IF k = 0 THEN <<>>
    ELSE IF flags[k]
         THEN Append(FlaggedUpTo(image_paths, flags, k - 1), image_paths[k])
         ELSE FlaggedUpTo(image_paths, flags, k - 1)

\* the first k entries of the list the generator is to get
SubstitutedUpTo(r, image_paths, k) ==
    [i \in 1..k |-> IF r.flags[i] THEN ImgOutputPath(r.job_id, i - 1) ELSE image_paths[i]]

InRemover(r) ==
    r.pc \in {"remove_background", "get_session", "new_session", "return_session", "remove"}

InGenerator(r) ==
    r.pc \in {"run_inference", "from_pretrained", "to_device", "return_pipeline", "load_images"}

\* C10: in a generate job of the queue handler the remover is called once for each
\* flagged image, in input order, never for an unflagged one, and before the single
\* generator call, which gets the input list with the flagged positions substituted.
C10_StepOrder ==
    \A t \in T :
        LET r == th[t]
            image_paths == r.job_input.image_paths.items
            n == Len(image_paths)
        IN
        r.surface = "queue" /\ r.route = "infer" /\ r.flags # <<>> =>
            /\ Len(r.generatorCalls) <= 1
            /\ r.idx <= n
            /\ r.pc = "infer_loop" =>
                  /\ r.removerCalls = FlaggedUpTo(image_paths, r.flags, r.idx)
                  /\ r.processed_paths = SubstitutedUpTo(r, image_paths, r.idx)
            /\ InRemover(r) =>
                  /\ r.flags[r.idx + 1]
                  /\ r.removerCalls = FlaggedUpTo(image_paths, r.flags, r.idx)
            /\ (r.pc = "done" /\ r.idx < n) =>
                  \/ r.removerCalls = FlaggedUpTo(image_paths, r.flags, r.idx)
                  \/ r.removerCalls = FlaggedUpTo(image_paths, r.flags, r.idx + 1)
            /\ (InGenerator(r) \/ r.generatorCalls # <<>> \/ (r.pc = "done" /\ r.idx = n)) =>
                  /\ r.idx = n
                  /\ r.removerCalls = FlaggedUpTo(image_paths, r.flags, n)
                  /\ r.image_paths = SubstitutedUpTo(r, image_paths, n)
            /\ r.generatorCalls # <<>> =>
                  r.generatorCalls[1] = SubstitutedUpTo(r, image_paths, n)

\* selector [true, false] with 3 images: one remover call, then the generator
C10_Witness ==
    \E t \in T :
        /\ th[t].surface = "queue"
        /\ th[t].pc = "done"
        /\ th[t].flags = <<TRUE, FALSE, FALSE>>
        /\ th[t].removerCalls = <<Ref(0)>>
        /\ th[t].generatorCalls = << <<ImgOutputPath(th[t].job_id, 0), Ref(1), Ref(2)>> >>
        /\ th[t].result.success = TRUE

====
